---- MODULE Spec2Model ----
(***************************************************************************)
(* Model of gallery_dl/extractor/hatenablog.py: the marker cursor, the     *)
(* article parser, the layout dispatcher, the pagination driver and the    *)
(* route constructors.                                                     *)
(*                                                                         *)
(* Text is modelled as a sequence of tokens; every token is a literal      *)
(* piece of the document, and the document is the concatenation of its     *)
(* tokens.  A marker is a sequence of tokens and is searched as a          *)
(* contiguous sub-sequence, which is what str.index does on the text.      *)
(* Positions are 0-based offsets, as in Python.                            *)
(***************************************************************************)
EXTENDS Integers, Sequences, FiniteSets, TLC

\* ------------------------------------------------------------------ bounds
MaxRequests == 3

\* ------------------------------------------------------------------ tokens
SP == " "
Q == "\""
GT == ">"
NL == "\n"
None == <<"None">>

\* ------------------------------------------------- python string helpers
\* txt[a:b] for 0 <= a, b (0-based, end exclusive)
Slice(txt, a, b) == IF b <= a THEN <<>> ELSE SubSeq(txt, a + 1, b)

\* sub occurs in txt at 0-based offset i
MatchAt(txt, sub, i) ==
    /\ i >= 0
    /\ i + Len(sub) <= Len(txt)
    /\ \A k \in 1..Len(sub) : txt[i + k] = sub[k]

\* the least (greatest) element of a set of offsets, or -1
First(hits) ==
    IF hits = {} THEN -1 ELSE CHOOSE i \in hits : \A j \in hits : i <= j
Last(hits) ==
    IF hits = {} THEN -1 ELSE CHOOSE i \in hits : \A j \in hits : j <= i

\* str.find(sub, start): least offset >= start, or -1 (str.index raises)
Index(txt, sub, start) ==
    First({i \in start..(Len(txt) - Len(sub)) : MatchAt(txt, sub, i)})

\* "sub in txt"
Contains(txt, sub) == Index(txt, sub, 0) # -1

\* str.rpartition(sep)[2]: what follows the last occurrence
RPartitionAfter(txt, sep) ==
    LET i == Last({j \in 0..(Len(txt) - Len(sep)) : MatchAt(txt, sep, j)})
    IN  IF i = -1 THEN <<>> ELSE Slice(txt, i + Len(sep), Len(txt))

\* str.partition(sep)[2]
PartitionAfter(txt, sep) ==
    LET i == Index(txt, sep, 0)
    IN  IF i = -1 THEN <<>> ELSE Slice(txt, i + Len(sep), Len(txt))

\* str.rpartition(sep) pieces: offset of the last occurrence, or -1
RIndex(txt, sep) ==
    Last({i \in 0..(Len(txt) - Len(sep)) : MatchAt(txt, sep, i)})

\* ------------------------------------------------- text module (library)
\* text.extract_from(txt): one call extr(begin, end) at cursor position pos.
\* Result: the extracted value and the new cursor position.
\* a cursor that steps over the begin marker when the end marker is absent
ExtractToAdvance(txt, pos, end, first, last) ==
    IF last = -1 THEN [val |-> <<>>, pos |-> first]
    ELSE [val |-> Slice(txt, first, last), pos |-> last + Len(end)]

ExtractTo(txt, pos, end, first, last) ==
    IF last = -1 THEN [val |-> <<>>, pos |-> pos]
    ELSE [val |-> Slice(txt, first, last), pos |-> last + Len(end)]
ExtractAfter(txt, pos, end, first) ==
    ExtractTo(txt, pos, end, first, Index(txt, end, first))
ExtractAt(txt, pos, begin, end, b) ==
    IF b = -1 THEN [val |-> <<>>, pos |-> pos]
    ELSE ExtractAfter(txt, pos, end, b + Len(begin))
ExtractFrom(txt, pos, begin, end) ==
    ExtractAt(txt, pos, begin, end, Index(txt, begin, pos))

\* text.extr(txt, begin, end)
Extr(txt, begin, end) == ExtractFrom(txt, 0, begin, end).val

\* text.unescape: HTML entities are replaced by their characters
UnescapeTok(t) == IF t = "&amp;" THEN "&"
                  ELSE IF t = "&quot;" THEN Q
                  ELSE t
Unescape(txt) == [i \in 1..Len(txt) |-> UnescapeTok(txt[i])]

\* text.parse_datetime(s, "%Y-%m-%dT%H:%M:%S%z"): naive UTC timestamp;
\* None for a string too short to index, the string itself if unparsable.
ParseDatetime(s) ==
    IF s = <<"2024-01-02T03:04:05+09:00">> THEN <<"2024-01-01 18:04:05">>
    ELSE IF s = <<"2023-12-31T23:59:59+00:00">> THEN <<"2023-12-31 23:59:59">>
    ELSE IF Len(s) = 0 THEN None
    ELSE s

\* text.parse_query(qs): qs is a sequence of <<name, value>> pairs (the
\* name=value pieces between "&"); the first occurrence of a name wins.
ParseQuery(qs) ==
    LET names == {qs[i][1] : i \in 1..Len(qs)}
        firstOf(n) == CHOOSE i \in 1..Len(qs) :
                          /\ qs[i][1] = n
                          /\ \A j \in 1..Len(qs) : qs[j][1] = n => i <= j
    IN  [n \in names |-> qs[firstOf(n)][2]]

\* text.nameext_from_url(url, data): adds filename and extension to data
FilenameFromUrl(url) ==
    LET cut == Index(url, <<"?">>, 0)
        base == IF cut = -1 THEN url ELSE Slice(url, 0, cut)
        sl == RIndex(base, <<"/">>)
    IN  IF sl = -1 THEN base ELSE Slice(base, sl + 1, Len(base))

NameExt(url) ==
    LET filename == FilenameFromUrl(url)
        dot == RIndex(filename, <<".">>)
        name == IF dot = -1 THEN <<>> ELSE Slice(filename, 0, dot)
        ext == IF dot = -1 THEN filename
               ELSE Slice(filename, dot + 1, Len(filename))
    IN  IF Len(name) > 0
        THEN [filename |-> name, extension |-> ext]
        ELSE [filename |-> filename, extension |-> <<>>]

\* ---------------------------------------------------------------- markers
M_body == <<"<body", SP>>
M_article == <<"<article", SP>>
M_earticle == <<"</article>">>
M_time == <<"<time", SP, "datetime=", Q>>
M_ahref == <<"<a", SP, "href=", Q>>
M_titlelink == <<Q, SP, "class=", Q, "entry-title-link", SP, "bookmark", Q, GT>>
M_ea == <<"</a>">>
M_content == <<"<div", SP, "class=", Q, "entry-content", SP,
               "hatenablog-entry", Q, GT>>
M_ediv == <<"</div>">>
M_section == <<"<section", SP, "class=", Q, "archive-entry">>
M_esection == <<"</section>">>
M_seclink == <<"<a", SP, "class=", Q, "entry-title-link", Q, SP, "href=", Q>>
M_pager == <<"<span", SP, "class=", Q, "pager-next", Q, GT>>
M_class == <<"class=", Q, "hatena-fotolife", Q>>
M_src == <<"src=", Q>>

\* number of consecutive tokens of set ws starting at offset i
RECURSIVE Run(_, _, _)
Run(txt, i, ws) ==
    IF i < Len(txt) /\ txt[i + 1] \in ws THEN 1 + Run(txt, i + 1, ws) ELSE 0

NoNewline(txt, a, b) == \A k \in (a + 1)..b : txt[k] # NL

\* ------------------------------------------------------ regular expressions
Least(S) == CHOOSE x \in S : \A y \in S : x <= y
Greatest(S) == CHOOSE x \in S : \A y \in S : y <= x

\* tail " */?>" at offset e: offset just past the ">", or -1
ImgTailGt(txt, b) == IF b < Len(txt) /\ txt[b + 1] = GT THEN b + 1 ELSE -1
ImgTailSlash(txt, a) ==
    ImgTailGt(txt, IF a < Len(txt) /\ txt[a + 1] = "/" THEN a + 1 ELSE a)
ImgTail(txt, e) == ImgTailSlash(txt, e + Run(txt, e, {SP}))

\* '<img +(.+?) */?>' anchored at offset i.  g is the offset where group 1
\* starts (after at least one space), e the offset where it ends.
\* " +" is greedy: the greatest g; "(.+?)" is lazy: the least e.
ImgEnds(txt, g) ==
    {e \in (g + 1)..Len(txt) : NoNewline(txt, g, e) /\ ImgTail(txt, e) # -1}
ImgStarts(txt, i) ==
    {g \in (i + 2)..(i + 1 + Run(txt, i + 1, {SP})) : ImgEnds(txt, g) # {}}
ImgMatches(txt, i) == MatchAt(txt, <<"<img">>, i) /\ ImgStarts(txt, i) # {}
ImgGroup(txt, g, e) == [from |-> g, to |-> e, end |-> ImgTail(txt, e)]
ImgGroupAt(txt, g) == ImgGroup(txt, g, Least(ImgEnds(txt, g)))
ImgMatch(txt, i) == ImgGroupAt(txt, Greatest(ImgStarts(txt, i)))

\* self._find_img(content): the group(1) of every match, in order
RECURSIVE FindImg(_, _)
FindImgNext(txt, m) == <<Slice(txt, m.from, m.to)>> \o FindImg(txt, m.end)
FindImgFirst(txt, hits) ==
    IF hits = {} THEN <<>> ELSE FindImgNext(txt, ImgMatch(txt, Least(hits)))
FindImg(txt, start) ==
    FindImgFirst(txt, {i \in start..(Len(txt) - 1) : ImgMatches(txt, i)})

\* '(?: |$)' at offset k: a space, the end of the text, or ("$") the place
\* just before one final newline
EndOrSpace(txt, k) ==
    \/ k = Len(txt)
    \/ k < Len(txt) /\ txt[k + 1] = SP
    \/ k + 1 = Len(txt) /\ txt[k + 1] = NL

IsImageLoose(attrs) == Contains(attrs, <<"class=", Q>>)

\* self._is_image(attributes): '(?: |^)class="hatena-fotolife"(?: |$)'
IsImage(attrs) ==
    \E i \in 0..(Len(attrs) - Len(M_class)) :
        /\ MatchAt(attrs, M_class, i)
        /\ (i = 0 \/ attrs[i] = SP)
        /\ EndOrSpace(attrs, i + Len(M_class))

\* the result of re.search: found = FALSE stands for None
NoMatch == [found |-> FALSE, val |-> <<>>]
Group1(txt, from, to) == [found |-> TRUE, val |-> Slice(txt, from, to)]

\* self._find_img_src(attributes): '(?: |^)src="(.+?)"(?: |$)'
\* e is the offset of the closing quote; "." matches no newline
SrcEnds(attrs, i) ==
    {e \in (i + 3)..(Len(attrs) - 1) :
        /\ attrs[e + 1] = Q
        /\ EndOrSpace(attrs, e + 1)
        /\ NoNewline(attrs, i + 2, e)}
SrcStarts(attrs) ==
    {i \in 0..(Len(attrs) - Len(M_src)) :
        /\ MatchAt(attrs, M_src, i)
        /\ (i = 0 \/ attrs[i] = SP)
        /\ SrcEnds(attrs, i) # {}}
SrcMatch(attrs, i) == Group1(attrs, i + 2, Least(SrcEnds(attrs, i)))
FindImgSrcFirst(attrs, starts) ==
    IF starts = {} THEN NoMatch ELSE SrcMatch(attrs, Least(starts))
FindImgSrc(attrs) == FindImgSrcFirst(attrs, SrcStarts(attrs))

\* self._find_pager_url(page):
\* '<span class="pager-next">\s*<a href="(.+?)"'
\* b is the offset after the white space, g the offset where group 1 starts
PagerEnds(page, g) ==
    {e \in (g + 1)..(Len(page) - 1) :
        page[e + 1] = Q /\ NoNewline(page, g, e)}
PagerHref(page, b) ==
    IF MatchAt(page, M_ahref, b) THEN PagerEnds(page, b + Len(M_ahref))
    ELSE {}
PagerSpace(page, a) == a + Run(page, a, {SP, NL})
PagerMatches(page, i) ==
    /\ MatchAt(page, M_pager, i)
    /\ PagerHref(page, PagerSpace(page, i + Len(M_pager))) # {}
PagerGroup(page, b) ==
    Group1(page, b + Len(M_ahref), Least(PagerHref(page, b)))
PagerMatch(page, i) == PagerGroup(page, PagerSpace(page, i + Len(M_pager)))
FindPagerUrlFirst(page, hits) ==
    IF hits = {} THEN NoMatch ELSE PagerMatch(page, Least(hits))
FindPagerUrl(page) ==
    FindPagerUrlFirst(page,
                      {i \in 0..(Len(page) - 1) : PagerMatches(page, i)})

\* --------------------------------------------------------- article parser
\* line 126-127: images.append(...), or the exception of .group(1) on None
AppendImage(src, rest) ==
    IF ~src.found \/ rest.raised THEN [raised |-> TRUE, images |-> <<>>]
    ELSE [raised |-> FALSE, images |-> <<Unescape(src.val)>> \o rest.images]

\* the images list built by the loop of _handle_article (lines 121-127):
\* raised = TRUE when _find_img_src(...) is None and .group(1) raises
RECURSIVE CollectImages(_)
CollectImages(groups) ==
    IF groups = <<>> THEN [raised |-> FALSE, images |-> <<>>]
    ELSE IF ~IsImage(Head(groups)) THEN CollectImages(Tail(groups))
    ELSE AppendImage(FindImgSrc(Head(groups)), CollectImages(Tail(groups)))

\* lines 129-135
ArticleData(dom, date, entry, title, imgs) ==
    [raised |-> imgs.raised,
     images |-> imgs.images,
     data |-> [domain |-> dom, date |-> date, entry |-> entry,
               title |-> title, count |-> Len(imgs.images)]]

\* _handle_article up to its first yield: the metadata and the image list
HandleArticle(article, dom) ==
    LET e1 == ExtractFrom(article, 0, M_time, <<Q>>)
        e2 == ExtractFrom(article, e1.pos, M_ahref, M_titlelink)
        e3 == ExtractFrom(article, e2.pos, <<>>, M_ea)
        e4 == ExtractFrom(article, e3.pos, M_content, M_ediv)
    IN  ArticleData(dom,
                    ParseDatetime(e1.val),
                    PartitionAfter(Unescape(e2.val), <<"/entry/">>),
                    e3.val,
                    CollectImages(FindImg(e4.val, 0)))

\* ------------------------------------------------------------- documents
\* A page is described by its structure and rendered to the tokens of the
\* HTML the site serves; the extractor sees the tokens only.
Host == "example.hatenablog.com"
CustomHost == "blog.hyouhon.com"
Cdn == "cdn-ak.f.st-hatena.com"

U1 == <<"https://", Cdn, "/", "images", "/", "a", ".", "jpg">>
U2 == <<"https://", Cdn, "/", "images", "/", "b", ".", "png", "?", "v=1",
        "&amp;", "w=2">>
U3 == <<"https://", Cdn, "/", "images", "/", "c", ".", "gif">>

E1 == <<"https://", Host, "/entry/", "2024/01/02/1234">>
E2 == <<"https://", Host, "/entry/", "a", "/entry/", "b", "&amp;", "c">>
E3 == <<"https://", CustomHost, "/entry/", "2023/12/22/133549">>

L2 == <<"https://", Host, "/", "?", "page=2">>
L3 == <<"https://", Host, "/search", "?", "q=a", "&amp;", "page=3">>

D1 == <<"2024-01-02T03:04:05+09:00">>
D2 == <<"2023-12-31T23:59:59+00:00">>

Img(cls, src, selfclose) == [cls |-> cls, src |-> src, selfclose |-> selfclose]

RECURSIVE Join(_, _)
Join(parts, sep) ==
    IF parts = <<>> THEN <<>>
    ELSE IF Head(parts) = <<>> THEN Join(Tail(parts), sep)
    ELSE LET rest == Join(Tail(parts), sep)
         IN  IF rest = <<>> THEN Head(parts) ELSE Head(parts) \o sep \o rest

RenderImg(im) ==
    LET clsAttr == IF im.cls = "fotolife" THEN M_class
                   ELSE IF im.cls = "other"
                   THEN <<"class=", Q, "emoji", Q>>
                   ELSE <<>>
        srcAttr == IF im.src = <<>> THEN <<>> ELSE M_src \o im.src \o <<Q>>
        altAttr == <<"alt=", Q, "x", Q>>
    IN  <<"<img", SP>> \o Join(<<clsAttr, srcAttr, altAttr>>, <<SP>>)
        \o (IF im.selfclose THEN <<SP, "/", GT>> ELSE <<GT>>)

RECURSIVE Concat(_)
Concat(ss) == IF ss = <<>> THEN <<>> ELSE Head(ss) \o Concat(Tail(ss))

RenderArticle(a) ==
    M_article \o a.attrs \o <<GT>>
    \o (IF a.date = <<>> THEN <<>>
        ELSE M_time \o a.date \o <<Q, GT, "</time>">>)
    \o (IF a.link = <<>> THEN <<>>
        ELSE M_ahref \o a.link \o M_titlelink \o a.title \o M_ea)
    \o (IF ~a.content THEN <<>>
        ELSE M_content
             \o Concat([i \in 1..Len(a.imgs) |-> RenderImg(a.imgs[i])])
             \o M_ediv)
    \o M_earticle

RenderSection(sec) ==
    M_section \o <<SP, "hentry", Q, GT>>
    \o M_seclink \o sec.link \o <<Q, GT>> \o sec.title \o M_ea
    \o M_esection

RenderFrag(f) ==
    IF f.kind = "article" THEN RenderArticle(f) ELSE RenderSection(f)

RenderPager(link) ==
    IF link = <<>> THEN <<>>
    ELSE M_pager \o <<NL, SP>> \o M_ahref \o link
         \o <<Q, SP, "rel=", Q, "next", Q, GT, "next", M_ea[1], "</span>">>

RenderBody(b) ==
    IF b = "archive"
    THEN M_body \o <<"class=", Q, "page-archive", SP, "header-image", Q, GT>>
    ELSE IF b = "plain"
    THEN M_body \o <<"class=", Q, "page-index", Q, GT>>
    ELSE <<>>

Render(d) ==
    <<"<html>">> \o RenderBody(d.body)
    \o Concat([i \in 1..Len(d.frags) |-> RenderFrag(d.frags[i])])
    \o RenderPager(d.pager)
    \o <<"</html>">>

EntryAttrs == <<"class=", Q, "entry", SP, "hentry", Q>>
NoEntryAttrs == <<"class=", Q, "entry", SP, "no-entry", Q>>

Article(attrs, date, link, title, content, imgs) ==
    [kind |-> "article", attrs |-> attrs, date |-> date, link |-> link,
     title |-> title, content |-> content, imgs |-> imgs]
Section(link, title) == [kind |-> "section", link |-> link, title |-> title]

A_two == Article(EntryAttrs, D1, E1, <<"Title", "1">>, TRUE,
                 <<Img("fotolife", U1, FALSE), Img("fotolife", U2, TRUE)>>)
A_one == Article(EntryAttrs, D2, E2, <<"T2">>, TRUE,
                 <<Img("none", U3, FALSE), Img("fotolife", U2, FALSE),
                   Img("other", U1, TRUE)>>)
A_zero == Article(EntryAttrs, D1, E3, <<"T3">>, TRUE, <<>>)
A_noent == Article(NoEntryAttrs, <<>>, <<>>, <<>>, FALSE, <<>>)
A_nolink == Article(EntryAttrs, D1, <<>>, <<>>, TRUE,
                    <<Img("fotolife", U1, FALSE)>>)
A_bare == Article(EntryAttrs, <<>>, <<>>, <<>>, FALSE, <<>>)
A_nosrc == Article(EntryAttrs, D2, E1, <<"T4">>, TRUE,
                   <<Img("fotolife", U1, FALSE), Img("fotolife", <<>>, FALSE)>>)
\* an article whose own attributes mention the archive class
A_pa == Article(<<"class=", Q, "entry", SP, "page-archive", Q>>, D1, E1,
                <<"T5">>, TRUE, <<>>)
S_1 == Section(E1, <<"Title", "1">>)
S_2 == Section(E2, <<"T2">>)
S_3 == Section(E3, <<"T3">>)

PageDesc(body, frags, pager) == [body |-> body, frags |-> frags, pager |-> pager]

MaxSections == 5
Sections(n) == [i \in 1..n |-> CASE i % 3 = 1 -> S_1 [] i % 3 = 2 -> S_2
                                 [] OTHER -> S_3]

\* the pages the site may serve
Catalog ==
    {PageDesc("plain", <<A_two, A_one>>, L2),
     PageDesc("plain", <<A_noent, A_two, A_noent, A_zero>>, <<>>),
     PageDesc("plain", <<A_noent, A_one>>, <<>>),
     PageDesc("plain", <<>>, L3),
     PageDesc("plain", <<>>, <<>>),
     PageDesc("plain", <<A_one, A_nosrc, A_two>>, <<>>),
     PageDesc("plain", <<A_nolink, A_zero>>, <<>>),
     PageDesc("plain", <<A_noent>>, <<>>),
     PageDesc("plain", <<A_bare, A_one>>, <<>>),
     PageDesc("none", <<A_zero, A_noent, A_one>>, <<>>),
     PageDesc("archive", <<A_two, S_1>>, <<>>),
     PageDesc("plain", <<S_1, A_zero>>, <<>>),
     PageDesc("plain", <<A_pa>>, <<>>),
     PageDesc("archive", Sections(2), L3)}
    \cup {PageDesc("archive", Sections(n), <<>>) : n \in 0..MaxSections}

\* ---------------------------------------------------------------- targets
\* A target is the tuple of groups of the route's pattern match:
\* g1/g2 the two alternatives of BASE_PATTERN, g3 the path group,
\* g4 the query group (a sequence of <<name, value>> pairs).
NoGroup == "None"
Target(route, g1, g2, g3, g4) ==
    [route |-> route, g1 |-> g1, g2 |-> g2, g3 |-> g3, g4 |-> g4]

\* the targets of the runs
Targets ==
    {Target("home", NoGroup, Host, <<>>, <<>>),
     Target("home", NoGroup, Host, <<"/">>,
            <<<<"ref", "x">>, <<"page", "3">>>>),
     Target("archive", NoGroup, Host, <<"/archive", "/2024">>,
            <<<<"q", "a">>, <<"utm_source", "x">>>>),
     Target("archive", CustomHost, NoGroup, <<"/archive">>,
            <<<<"page", "2">>>>),
     Target("search", NoGroup, Host, <<"/search">>,
            <<<<"q", "a">>, <<"utm_source", "x">>>>),
     Target("search", CustomHost, NoGroup, <<"/search">>,
            <<<<"page", "2">>, <<"q", "b">>, <<"q", "a">>>>),
     Target("entry", NoGroup, Host, <<"2024/01/02/1234">>, <<>>),
     Target("entry", CustomHost, NoGroup, <<"2023/12/22/133549">>,
            <<<<"q", "a">>>>)}

\* the targets of the constructor: every query of at most MaxQueryLen pairs
MaxQueryLen == 2
QueryPairs == {<<k, v>> : k \in {"page", "q", "utm_source"}, v \in {"a", "x"}}
Queries == UNION {[1..n -> QueryPairs] : n \in 0..MaxQueryLen}
\* the paths the route patterns capture: "(/?)" for Home,
\* "(/archive(?:/\d+...)?)" for Archive and "(/search)" for Search
CtorPaths(route) ==
    IF route = "home" THEN {<<>>, <<"/">>}
    ELSE IF route = "archive" THEN {<<"/archive">>, <<"/archive", "/2024">>}
    ELSE {<<"/search">>}
CtorTargets ==
    UNION {{Target(r, NoGroup, Host, p, qs) :
                p \in CtorPaths(r), qs \in Queries} :
              r \in {"home", "archive", "search"}}

\* match.group(1) or match.group(2)
Domain(g1, g2) == IF g1 # NoGroup THEN g1 ELSE g2

\* allowed_parameters of the route's class
AllowedParameters(route) == IF route = "search" THEN {"q"} ELSE {}

AcceptableQueryNoPage(key, allowed) == key \in allowed

\* line 194
AcceptableQuery(key, allowed) == key = "page" \/ key \in allowed

\* self.query of HatenaBlogEntriesExtractor.__init__
FilterQuery(qs, allowed) ==
    LET parsed == ParseQuery(qs)
    IN  [key \in {x \in DOMAIN parsed : AcceptableQuery(x, allowed)}
            |-> parsed[key]]

EmptyDict == [key \in {} |-> ""]
Params(dict) == [given |-> TRUE, dict |-> dict]
NoParams == [given |-> FALSE, dict |-> EmptyDict]

\* ------------------------------------------------------------------ state
VARIABLES
    match,      \* the pattern match the extractor was constructed from
    domain,     \* self.domain
    path,       \* self.path
    query,      \* self.query (listing routes)
    pc,         \* where the items() generator resumes
    url,        \* items(): url
    params,     \* items(): query
    page,       \* text of the page being parsed
    pos,        \* cursor of text.extract_from(page)
    images,     \* _handle_article: images
    num,        \* _handle_article: number of Url messages yielded
    objs,       \* the data dicts created by _handle_article, by identity
    out,        \* the messages yielded so far
    requests,   \* the calls of self.request so far
    served,     \* the pages served so far (their structure)
    error,      \* the exception that ended the run, or "none"
    parked,     \* the suspended invocation of a run of two, or NoInvocation
    pending     \* the article text of the generator items() returned (Entry)

vars == <<match, domain, path, query, pc, url, params, page, pos, images,
          num, objs, out, requests, served, error, parked, pending>>

IsListing == match.route # "entry"

\* no second invocation
NoInvocation == [pc |-> "none"]

Put(d, key, v) == [x \in DOMAIN d \cup {key} |-> IF x = key THEN v ELSE d[x]]

\* the fields set by the constructors (lines 102-109, 145-151, 203-205)
SelfDomain(m) == Domain(m.g1, m.g2)
SelfPath(m) == m.g3
SelfQuery(m) == IF m.route = "entry" THEN EmptyDict
                ELSE FilterQuery(m.g4, AllowedParameters(m.route))

Init ==
    /\ match \in Targets
    /\ domain = SelfDomain(match)
    /\ path = SelfPath(match)
    /\ query = SelfQuery(match)
    /\ pc = "start"
    /\ url = <<>>
    /\ params = NoParams
    /\ page = <<>>
    /\ pos = 0
    /\ images = <<>>
    /\ num = 0
    /\ objs = <<>>
    /\ out = <<>>
    /\ requests = <<>>
    /\ served = <<>>
    /\ error = "none"
    /\ parked = NoInvocation
    /\ pending = <<>>

Target_vars == <<match, domain, path, query>>

\* ---------------------------------------------------------------- messages
Directory(data, obj) ==
    [kind |-> "Directory", url |-> <<>>, data |-> data, obj |-> obj]
Url(image, data, obj) ==
    [kind |-> "Url", url |-> image, data |-> data, obj |-> obj]
Queue(u) ==
    [kind |-> "Queue", url |-> u,
     data |-> [x \in {"_extractor"} |-> "HatenaBlogEntryExtractor"],
     obj |-> 0]

\* leaving the page after its first article, fetching again
AfterArticleReturn == IF IsListing THEN "request" ELSE "done"

\* where control goes when _handle_article is exhausted
AfterArticle == IF IsListing THEN "full" ELSE "done"

RaiseSwallow(kind) ==
    /\ pc' = IF kind = "fetch" THEN "request" ELSE AfterArticle
    /\ error' = error

\* an exception leaves the generator: the run is over
Raise(kind) ==
    /\ pc' = "error"
    /\ error' = kind

\* yielding Message.Directory before the image loop has run to its end
YieldParsedEarly(h) ==
    /\ objs' = Append(objs, h.data)
    /\ out' = Append(out, Directory(h.data, Len(objs) + 1))
    /\ IF h.raised
       THEN Raise("parse") /\ UNCHANGED <<images, num>>
       ELSE /\ images' = h.images
            /\ num' = 0
            /\ pc' = IF h.images = <<>> THEN AfterArticle ELSE "images"
            /\ error' = error

\* lines 111-136: parse the article and yield Message.Directory
YieldParsed(h) ==
    IF h.raised
    THEN /\ Raise("parse")
         /\ UNCHANGED <<images, num, objs, out>>
    ELSE /\ images' = h.images
         /\ num' = 0
         /\ objs' = Append(objs, h.data)
         /\ out' = Append(out, Directory(h.data, Len(objs) + 1))
         /\ pc' = IF h.images = <<>> THEN AfterArticle ELSE "images"
         /\ error' = error
YieldDirectory(article) == YieldParsed(HandleArticle(article, domain))

\* lines 137-138: one iteration of the for loop
YieldUrl ==
    /\ pc = "images"
    /\ LET i == num + 1
           obj == Len(objs)
           image == images[i]
           ne == NameExt(image)
           data == Put(Put(Put(objs[obj], "num", i),
                           "filename", ne.filename),
                       "extension", ne.extension)
       IN  /\ num' = i
           /\ objs' = [objs EXCEPT ![obj] = data]
           /\ out' = Append(out, Url(image, data, obj))
           /\ pc' = IF i = Len(images) THEN AfterArticle ELSE "images"
    /\ UNCHANGED <<parked, pending, Target_vars, url, params, page, pos,
                   images, requests, served, error>>

\* lines 154-155
ItemsStart ==
    /\ pc = "start"
    /\ IsListing
    /\ url' = <<"https://", domain>> \o path
    /\ params' = Params(query)
    /\ pc' = "request"
    /\ UNCHANGED <<parked, pending, Target_vars, page, pos, images, num, objs,
                   out, requests, served, error>>

EntryUrlNoPrefix(dom, p) == <<"https://", dom>> \o p

\* line 208
EntryUrl(dom, p) == <<"https://", dom, "/entry/">> \o p

\* -------------------------------------------------- the Entry route pattern
\* BASE_PATTERN + "/entry/([^?#]+)" + QUERY_RE matched at the start of a URL
\* given as tokens.  A host is one token; the tokens below are those of the
\* documents that hold a "/", and the hosts under the four hatena domains.
HasSlash(tok) ==
    tok \in {"/", "/entry/", "https://", "http://", "/search", "/archive",
             "/2024", "2024/01/02/1234", "2023/12/22/133549", "</time>",
             "</article>", "</div>", "</a>", "</html>", "</span>",
             "</section>"}
IsScheme(tok) == tok \in {"https://", "http://"}
IsHatenaHost(tok) ==
    tok \in {Host, "a.hatenablog.jp", "a.hatenadiary.com", "a.hateblo.jp"}

NoEntryMatch == [ok |-> FALSE, g1 |-> NoGroup, g2 |-> NoGroup, g3 |-> <<>>]

\* ([^?#]+): the offset just past the longest run without "?" and "#"
PathEnd(u, s) == s + Run(u, s, {u[i] : i \in 1..Len(u)} \ {"?", "#"})

\* (?:#.*)?$ : what follows the query is a fragment without a newline;
\* "$" also matches just before one final newline
TailEnd(u) == IF u # <<>> /\ u[Len(u)] = NL THEN Len(u) - 1 ELSE Len(u)
TailOk(u, e) ==
    LET f == Index(u, <<"#">>, e)
    IN  f = -1 \/ NoNewline(u, f, TailEnd(u))

\* "/entry/" at offset s, then the path group and the tail
EntryMatchAt(u, g1, g2, s) ==
    IF MatchAt(u, <<"/entry/">>, s) /\ PathEnd(u, s + 1) > s + 1
       /\ TailOk(u, PathEnd(u, s + 1))
    THEN [ok |-> TRUE, g1 |-> g1, g2 |-> g2,
          g3 |-> Slice(u, s + 1, PathEnd(u, s + 1))]
    ELSE NoEntryMatch

\* the second alternative of BASE_PATTERN, the scheme being optional
EntryMatchHatena(u, s) ==
    IF Len(u) > s /\ IsHatenaHost(u[s + 1])
    THEN EntryMatchAt(u, NoGroup, u[s + 1], s + 1)
    ELSE NoEntryMatch

\* the pattern accepting the hosts under the hatena domains only
EntryMatchHatenaOnly(u) ==
    IF Len(u) >= 3 /\ u[1] = "hatenablog:" /\ IsScheme(u[2])
       /\ IsHatenaHost(u[3])
    THEN EntryMatchAt(u, u[3], NoGroup, 3)
    ELSE EntryMatchHatena(u, IF u # <<>> /\ IsScheme(u[1]) THEN 1 ELSE 0)

\* lines 14-19 and 200: re.match(HatenaBlogEntryExtractor.pattern, url)
EntryMatch(u) ==
    IF Len(u) >= 3 /\ u[1] = "hatenablog:" /\ IsScheme(u[2])
       /\ ~HasSlash(u[3])
    THEN EntryMatchAt(u, u[3], NoGroup, 3)
    ELSE EntryMatchHatena(u, IF u # <<>> /\ IsScheme(u[1]) THEN 1 ELSE 0)

IsNoEntryNever(attributes) == FALSE

\* lines 187 and 214
IsNoEntry(attributes) == Contains(attributes, <<"no-entry">>)

QueueUrlRaw(section) == <<"hatenablog:">> \o Extr(section, M_seclink, <<Q>>)

\* lines 177-178
QueueUrl(section) ==
    <<"hatenablog:">> \o Unescape(Extr(section, M_seclink, <<Q>>))

\* one call of self.request; before = number of messages yielded so far
Request(u, p) == [url |-> u, params |-> p, before |-> Len(out)]

NextQueryKeep(q) == q

\* line 169
NextQuery(q) == NoParams

NextUrlAnyLink(pg) == Unescape(Extr(pg, M_ahref, <<Q>>))

NextUrlRaw(pg) == FindPagerUrl(pg).val

\* lines 167-168; <<>> stands for None
NextUrl(pg) == Unescape(FindPagerUrl(pg).val)

\* following the pager only when the page gave at least one message
NextPageIfItems ==
    /\ url' = NextUrl(page)
    /\ params' = NextQuery(params)
    /\ pc' = IF url' # <<>> /\ Len(out) > requests[Len(requests)].before
             THEN "request" ELSE "done"

\* lines 167-169 and the loop test of line 157
NextPage ==
    /\ url' = NextUrl(page)
    /\ params' = NextQuery(params)
    /\ pc' = IF url' # <<>> THEN "request" ELSE "done"

\* line 162: the test that sends a page to the partial layout
IsArchiveNever(attributes) == FALSE

IsArchive(attributes) == Contains(attributes, <<"page-archive">>)

\* lines 157-165: request the page and dispatch on its layout
ItemsRequest ==
    /\ pc = "request"
    /\ Len(requests) < MaxRequests
    /\ requests' = Append(requests, Request(url, params))
    /\ \/ /\ Raise("fetch")
          /\ UNCHANGED <<page, pos, served>>
       \/ \E d \in Catalog :
            LET attributes == ExtractFrom(Render(d), 0, M_body, <<GT>>)
            IN  /\ page' = Render(d)
                /\ served' = Append(served, d)
                /\ pos' = attributes.pos
                /\ pc' = IF IsArchive(attributes.val)
                         THEN "partial" ELSE "full"
                /\ error' = error
    /\ UNCHANGED <<parked, pending, Target_vars, url, params, images, num,
                   objs, out>>

\* lines 171-180: one iteration of the loop of _handle_partial_articles
HandlePartialArticles ==
    /\ pc = "partial"
    /\ LET section == ExtractFrom(page, pos, M_section, M_esection)
       IN  IF section.val = <<>>
           THEN /\ pos' = section.pos
                /\ NextPage
                /\ UNCHANGED out
           ELSE /\ pos' = section.pos
                /\ out' = Append(out, Queue(QueueUrl(section.val)))
                /\ UNCHANGED <<pc, url, params>>
    /\ UNCHANGED <<parked, pending, Target_vars, page, images, num, objs,
                   requests, served, error>>

\* the loop of _handle_full_articles with a cursor created anew in every
\* iteration, so that every search starts at the top of the page
HandleFullArticlesRestart ==
    /\ pc = "full"
    /\ LET attributes == ExtractFrom(page, 0, M_article, <<GT>>)
           article == ExtractFrom(page, attributes.pos, <<>>, M_earticle)
       IN  IF attributes.val = <<>>
           THEN /\ pos' = attributes.pos
                /\ NextPage
                /\ UNCHANGED <<images, num, objs, out, error>>
           ELSE IF IsNoEntry(attributes.val)
           THEN /\ pos' = attributes.pos
                /\ UNCHANGED <<pc, url, params, images, num, objs, out,
                               error>>
           ELSE /\ pos' = article.pos
                /\ YieldDirectory(article.val)
                /\ UNCHANGED <<url, params>>
    /\ UNCHANGED <<parked, pending, Target_vars, page, requests, served>>

\* lines 182-191: one iteration of the loop of _handle_full_articles
HandleFullArticles ==
    /\ pc = "full"
    /\ LET attributes == ExtractFrom(page, pos, M_article, <<GT>>)
           article == ExtractFrom(page, attributes.pos, <<>>, M_earticle)
       IN  IF attributes.val = <<>>
           THEN /\ pos' = attributes.pos
                /\ NextPage
                /\ UNCHANGED <<images, num, objs, out, error>>
           ELSE IF IsNoEntry(attributes.val)
           THEN /\ pos' = attributes.pos
                /\ UNCHANGED <<pc, url, params, images, num, objs, out,
                               error>>
           ELSE /\ pos' = article.pos
                /\ YieldDirectory(article.val)
                /\ UNCHANGED <<url, params>>
    /\ UNCHANGED <<parked, pending, Target_vars, page, requests, served>>

\* lines 208-211 of HatenaBlogEntryExtractor.items
EntryRequest ==
    /\ pc = "start"
    /\ ~IsListing
    /\ url' = EntryUrl(domain, path)
    /\ requests' = Append(requests, Request(url', NoParams))
    /\ \/ /\ Raise("fetch")
          /\ UNCHANGED <<page, pos, served>>
       \/ \E d \in Catalog :
            /\ page' = Render(d)
            /\ served' = Append(served, d)
            /\ pos' = 0
            /\ pc' = "entry"
            /\ error' = error
    /\ UNCHANGED <<parked, pending, Target_vars, params, images, num, objs,
                   out>>

\* lines 212-217: one iteration of the loop of HatenaBlogEntryExtractor.items
\* Line 217 returns the generator of _handle_article unstarted: nothing of
\* the article is parsed or yielded before the caller asks for a message.
EntryScan ==
    /\ pc = "entry"
    /\ LET attributes == ExtractFrom(page, pos, M_article, <<GT>>)
           article == ExtractFrom(page, attributes.pos, <<>>, M_earticle)
       IN  IF IsNoEntry(attributes.val)
           THEN /\ pos' = attributes.pos
                /\ UNCHANGED <<pc, pending>>
           ELSE /\ pos' = article.pos
                /\ pending' = article.val
                /\ pc' = "returned"
    /\ UNCHANGED <<parked, Target_vars, url, params, page, images, num, objs,
                   out, requests, served, error>>

\* lines 111-136 on the Entry route: the first next() of the generator that
\* items() returned runs _handle_article up to its first yield
EntryArticle ==
    /\ pc = "returned"
    /\ YieldDirectory(pending)
    /\ UNCHANGED <<parked, pending, Target_vars, url, params, page, pos,
                   requests, served>>

Next ==
    \/ ItemsStart
    \/ ItemsRequest
    \/ HandlePartialArticles
    \/ HandleFullArticles
    \/ YieldUrl
    \/ EntryRequest
    \/ EntryScan
    \/ EntryArticle

Spec == Init /\ [][Next]_vars

\* the constructor on its own: from the pattern match to the first request
InitCtor ==
    /\ match \in CtorTargets
    /\ domain = ""
    /\ path = <<>>
    /\ query = EmptyDict
    /\ pc = "new"
    /\ url = <<>>
    /\ params = NoParams
    /\ page = <<>>
    /\ pos = 0
    /\ images = <<>>
    /\ num = 0
    /\ objs = <<>>
    /\ out = <<>>
    /\ requests = <<>>
    /\ served = <<>>
    /\ error = "none"
    /\ parked = NoInvocation
    /\ pending = <<>>

\* HatenaBlogEntriesExtractor.__init__ (lines 145-151)
Construct ==
    /\ pc = "new"
    /\ domain' = SelfDomain(match)
    /\ path' = SelfPath(match)
    /\ query' = SelfQuery(match)
    /\ pc' = "start"
    /\ UNCHANGED <<parked, pending, match, url, params, page, pos, images, num,
                   objs, out, requests, served, error>>

NextCtor ==
    \/ Construct
    \/ ItemsStart

SpecCtor == InitCtor /\ [][NextCtor]_vars

\* a marker cursor on its own: any sequence of calls extr(begin, end) on one
\* text, the markers being those the extractor uses
\* the text _handle_article is given: what lies between the opening tag
\* of the article and its "</article>" (lines 184-190, 213-216)
ArticleText(a) ==
    ExtractFrom(RenderArticle(a),
                ExtractFrom(RenderArticle(a), 0, M_article, <<GT>>).pos,
                <<>>, M_earticle).val
CursorTexts ==
    {Render(d) : d \in Catalog}
    \cup {ArticleText(a) : a \in {A_two, A_one, A_zero, A_nolink, A_bare,
                                  A_nosrc, A_pa}}
    \cup {<<>>}
BeginMarkers ==
    {<<>>, M_body, M_article, M_section, M_time, M_ahref, M_content,
     M_seclink}
EndMarkers == {<<GT>>, <<Q>>, M_earticle, M_esection, M_titlelink, M_ea, M_ediv}

InitCursor ==
    /\ match = Target("home", NoGroup, Host, <<>>, <<>>)
    /\ domain = SelfDomain(match)
    /\ path = SelfPath(match)
    /\ query = SelfQuery(match)
    /\ pc = "cursor"
    /\ url = <<>>
    /\ params = NoParams
    /\ page \in CursorTexts
    /\ pos = 0
    /\ images = <<>>
    /\ num = 0
    /\ objs = <<>>
    /\ out = <<>>
    /\ requests = <<>>
    /\ served = <<>>
    /\ error = "none"
    /\ parked = NoInvocation
    /\ pending = <<>>

\* one call extr(begin, end) of the closure of text.extract_from(page)
CursorExtract ==
    /\ pc = "cursor"
    /\ \E begin \in BeginMarkers, end \in EndMarkers :
          pos' = ExtractFrom(page, pos, begin, end).pos
    /\ UNCHANGED <<parked, pending, Target_vars, pc, url, params, page, images,
                   num, objs, out, requests, served, error>>

NextCursor == CursorExtract

SpecCursor == InitCursor /\ [][NextCursor]_vars

\* ------------------------------------------------------ two invocations
\* Two runs whose steps interleave: one is active, the other is suspended
\* between two of its steps.  What a run owns is its extractor object (its
\* fields) and the frame of its generator (its locals and its cursor); the
\* module and class attributes are constants and belong to neither.
TwoTargets ==
    {Target("home", NoGroup, Host, <<"/">>,
            <<<<"ref", "x">>, <<"page", "3">>>>),
     Target("entry", CustomHost, NoGroup, <<"2023/12/22/133549">>,
            <<<<"q", "a">>>>)}
TwoCatalog ==
    {PageDesc("plain", <<A_two, A_one>>, L2),
     PageDesc("archive", Sections(2), L3),
     PageDesc("plain", <<A_noent, A_one>>, <<>>)}
TwoSite == \A k \in 1..Len(served) : served[k] \in TwoCatalog

\* the state of an invocation just constructed from target t
Fresh(t) ==
    [match |-> t, domain |-> SelfDomain(t), path |-> SelfPath(t),
     query |-> SelfQuery(t), pc |-> "start", url |-> <<>>,
     params |-> NoParams, page |-> <<>>, pos |-> 0, images |-> <<>>,
     num |-> 0, objs |-> <<>>, out |-> <<>>, requests |-> <<>>,
     served |-> <<>>, error |-> "none", pending |-> <<>>]

\* the state of the active invocation
Own ==
    [match |-> match, domain |-> domain, path |-> path, query |-> query, pc
    |-> pc, url |-> url, params |-> params, page |-> page, pos |-> pos, images
    |-> images, num |-> num, objs |-> objs, out |-> out, requests |->
    requests, served |-> served, error |-> error, pending |-> pending]

InitTwo ==
    /\ match \in TwoTargets
    /\ domain = SelfDomain(match)
    /\ path = SelfPath(match)
    /\ query = SelfQuery(match)
    /\ pc = "start"
    /\ url = <<>>
    /\ params = NoParams
    /\ page = <<>>
    /\ pos = 0
    /\ images = <<>>
    /\ num = 0
    /\ objs = <<>>
    /\ out = <<>>
    /\ requests = <<>>
    /\ served = <<>>
    /\ error = "none"
    /\ parked \in {Fresh(t) : t \in TwoTargets}
    /\ pending = <<>>

\* resuming with one cursor position for both invocations
RestoreSharedCursor(s) ==
    /\ match' = s.match
    /\ domain' = s.domain
    /\ path' = s.path
    /\ query' = s.query
    /\ pc' = s.pc
    /\ url' = s.url
    /\ params' = s.params
    /\ page' = s.page
    /\ pos' = pos
    /\ images' = s.images
    /\ num' = s.num
    /\ objs' = s.objs
    /\ out' = s.out
    /\ requests' = s.requests
    /\ served' = s.served
    /\ error' = s.error
    /\ pending' = s.pending

\* resuming a suspended invocation: its fields and its frame are its own
Restore(s) ==
    /\ match' = s.match
    /\ domain' = s.domain
    /\ path' = s.path
    /\ query' = s.query
    /\ pc' = s.pc
    /\ url' = s.url
    /\ params' = s.params
    /\ page' = s.page
    /\ pos' = s.pos
    /\ images' = s.images
    /\ num' = s.num
    /\ objs' = s.objs
    /\ out' = s.out
    /\ requests' = s.requests
    /\ served' = s.served
    /\ error' = s.error
    /\ pending' = s.pending

\* the active invocation is suspended and the other one resumed
Switch ==
    /\ parked # NoInvocation
    /\ parked' = Own
    /\ Restore(parked)

NextTwo ==
    \/ Next /\ TwoSite'
    \/ Switch

SpecTwo == InitTwo /\ [][NextTwo]_vars

TypeOK ==
    /\ pc \in {"new", "start", "request", "partial", "full", "images", "entry",
               "returned", "done", "error", "cursor"}
    /\ error \in {"none", "fetch", "parse"}
    /\ pos \in 0..Len(page)
    /\ num \in 0..Len(images)

\* ------------------------------------------------- what the pages contain
\* The messages a page is expected to produce, read off its structure.
View(kind, u, entry, title, date, n) ==
    [kind |-> kind, url |-> u, entry |-> entry, title |-> title,
     date |-> date, n |-> n]

ViewOf(item) ==
    IF item.kind = "Directory"
    THEN View("Directory", <<>>, item.data.entry, item.data.title,
              item.data.date, item.data.count)
    ELSE IF item.kind = "Url"
    THEN View("Url", item.url, <<>>, <<>>, <<>>, item.data.num)
    ELSE View("Queue", item.url, <<>>, <<>>, <<>>, 0)

ViewOut == [i \in 1..Len(out) |-> ViewOf(out[i])]

Qualifies(im) == im.cls = "fotolife"
QualifyingImages(a) == IF a.content THEN SelectSeq(a.imgs, Qualifies) ELSE <<>>
ArticleRaises(a) ==
    \E i \in 1..Len(QualifyingImages(a)) : QualifyingImages(a)[i].src = <<>>
IsRealArticle(f) ==
    f.kind = "article" /\ \A i \in 1..Len(f.attrs) : f.attrs[i] # "no-entry"
IsSection(f) == f.kind = "section"

ExpArticle(a) ==
    LET qs == QualifyingImages(a)
    IN  <<View("Directory", <<>>,
               PartitionAfter(Unescape(a.link), <<"/entry/">>), a.title,
               ParseDatetime(a.date), Len(qs))>>
        \o [i \in 1..Len(qs) |->
               View("Url", Unescape(qs[i].src), <<>>, <<>>, <<>>, i)]

\* the articles of a sequence of real articles, up to the first that raises
RECURSIVE ExpArticles(_)
ExpArticles(as) ==
    IF as = <<>> \/ ArticleRaises(Head(as)) THEN <<>>
    ELSE ExpArticle(Head(as)) \o ExpArticles(Tail(as))

ExpSections(d) ==
    LET secs == SelectSeq(d.frags, IsSection)
    IN  [i \in 1..Len(secs) |->
            View("Queue", <<"hatenablog:">> \o Unescape(secs[i].link),
                 <<>>, <<>>, <<>>, 0)]

RealArticles(d) == SelectSeq(d.frags, IsRealArticle)

\* an article without any marker: what is parsed when the page has none
NoArticle == Article(<<>>, <<>>, <<>>, <<>>, FALSE, <<>>)

ExpPage(route, d) ==
    IF route = "entry"
    THEN ExpArticles(IF RealArticles(d) = <<>> THEN <<NoArticle>>
                     ELSE <<Head(RealArticles(d))>>)
    ELSE IF d.body = "archive" THEN ExpSections(d)
    ELSE ExpArticles(RealArticles(d))

PageRaises(route, d) ==
    /\ route = "entry" \/ d.body # "archive"
    /\ RealArticles(d) # <<>>
    /\ \E i \in 1..(IF route = "entry" THEN 1 ELSE Len(RealArticles(d))) :
          ArticleRaises(RealArticles(d)[i])

ExpStream == Concat([k \in 1..Len(served) |-> ExpPage(match.route, served[k])])

IsPrefix(a, b) == Len(a) <= Len(b) /\ \A i \in 1..Len(a) : a[i] = b[i]

\* the messages yielded while page k was the current page
ItemsOf(k) ==
    SubSeq(out, requests[k].before + 1,
           IF k < Len(requests) THEN requests[k + 1].before ELSE Len(out))

\* every served page has been scanned to its end
Complete == pc \in {"request", "done"}

StartUrl == <<"https://", domain>> \o path

\* -------------------------------------------------------------- properties
\* C1: in a listing run only the first request carries the target's filtered
\* query; every later request (a pager-next URL) carries no parameters.
C1_QueryOnlyOnFirstRequest ==
    IsListing =>
        \A i \in 1..Len(requests) :
            requests[i].params = IF i = 1 THEN Params(query) ELSE NoParams

C1_Witness ==
    /\ IsListing
    /\ Len(requests) >= 3
    /\ DOMAIN query # {}

\* C2: over a chain of pages linked by pager-next the driver issues one
\* request per page in chain order, and is Done once the page without a
\* pager-next link has been scanned; a first page without the link means
\* exactly one request.
C2_ChainOfRequests ==
    IsListing =>
        /\ Len(requests) >= 1 => requests[1].url = StartUrl
        /\ \A i \in 1..(Len(requests) - 1) :
              /\ served[i].pager # <<>>
              /\ requests[i + 1].url = Unescape(served[i].pager)
        /\ pc = "request" /\ served # <<>> => served[Len(served)].pager # <<>>
        /\ pc = "done" =>
              /\ Len(requests) = Len(served)
              /\ served # <<>>
              /\ served[Len(served)].pager = <<>>
        /\ served # <<>> /\ served[1].pager = <<>> => Len(requests) = 1

C2_Witness ==
    /\ IsListing
    /\ pc = "done"
    /\ Len(requests) >= 3

\* C3 (as claimed): no URL is requested twice, whatever the site serves.
C3_NeverRequestsUrlTwice ==
    IsListing =>
        \A i, j \in 1..Len(requests) :
            i < j => requests[i].url # requests[j].url

\* C3 (amended): a URL is requested again only because the pager-next link
\* of the page fetched just before points to a URL already requested; the
\* driver follows that link.
C3_RevisitsOnlyByBackLink ==
    IsListing =>
        /\ \A i, j \in 1..Len(requests) :
              i < j /\ requests[i].url = requests[j].url =>
                  Unescape(served[j - 1].pager) = requests[i].url
        /\ \A j \in 1..Len(served) :
              (j < Len(served) \/ pc = "request") =>
                  LET nxt == IF j < Len(requests) THEN requests[j + 1].url
                             ELSE url
                  IN  (\E i \in 1..j :
                          requests[i].url = Unescape(served[j].pager))
                      => nxt = Unescape(served[j].pager)

C3_Witness ==
    /\ IsListing
    /\ \E i, j \in 1..Len(requests) :
          i < j /\ requests[i].url = requests[j].url

\* C4: the query of a listing target is the input query restricted to
\* "page" and the route's allow-list ("q" for Search), values unchanged.
KeptKeys(route) == {"page"} \cup (IF route = "search" THEN {"q"} ELSE {})
FirstValue(qs, key) ==
    qs[CHOOSE i \in 1..Len(qs) :
          qs[i][1] = key /\ \A j \in 1..(i - 1) : qs[j][1] # key][2]
C4_QueryIsAllowListed ==
    (IsListing /\ pc # "new") =>
        /\ DOMAIN query = {match.g4[i][1] : i \in 1..Len(match.g4)}
                          \cap KeptKeys(match.route)
        /\ \A key \in DOMAIN query : query[key] = FirstValue(match.g4, key)
        /\ (match.route = "search"
              /\ match.g4 = <<<<"q", "a">>, <<"utm_source", "x">>>>)
           => query = [x \in {"q"} |-> "a"]

C4_Witness ==
    /\ pc = "request"
    /\ match.route = "search"
    /\ match.g4 = <<<<"q", "a">>, <<"utm_source", "x">>>>
    /\ query = [x \in {"q"} |-> "a"]
    /\ params = Params(query)

\* C5: every Directory message is followed by exactly count Url messages
\* with num = 1..count, count being the number of images of the article's
\* content that carry class="hatena-fotolife", in document order; other
\* images give no message and num restarts with every article.
ImgView(v) == [kind |-> v.kind, url |-> v.url, n |-> v.n]
NotQueue(v) == v.kind # "Queue"
ImgViews(vs) ==
    LET sel == SelectSeq(vs, NotQueue)
    IN  [i \in 1..Len(sel) |-> ImgView(sel[i])]
C5_DirectoryThenCountUrls ==
    /\ \A i \in 1..Len(out) :
          out[i].kind = "Directory" =>
              LET c == out[i].data.count
              IN  /\ \A j \in 1..c :
                        i + j <= Len(out) =>
                            /\ out[i + j].kind = "Url"
                            /\ out[i + j].data.num = j
                  /\ i + c + 1 <= Len(out) => out[i + c + 1].kind # "Url"
                  /\ pc # "images" => i + c <= Len(out)
    /\ \A i \in 1..Len(out) :
          out[i].kind = "Url" => i > 1 /\ out[i - 1].kind # "Queue"
    /\ IsPrefix(ImgViews(ViewOut), ImgViews(ExpStream))
    /\ Complete => ImgViews(ViewOut) = ImgViews(ExpStream)

C5_Witness ==
    /\ Len(out) >= 5
    /\ served[1].frags = <<A_two, A_one>>
    /\ out[1].kind = "Directory" /\ out[1].data.count = 2
    /\ out[3].kind = "Url" /\ out[3].data.num = 2
    /\ out[4].kind = "Directory" /\ out[4].data.count = 1
    /\ out[5].kind = "Url" /\ out[5].data.num = 1

\* C6: on a full-layout page the Directory messages are, in order, those of
\* the articles whose opening tag has no "no-entry"; a no-entry article
\* gives no message and does not end the scan.
IsDirectory(v) == v.kind = "Directory"
ViewsOf(k) == [i \in 1..Len(ItemsOf(k)) |-> ViewOf(ItemsOf(k)[i])]
DirectoriesOf(d) ==
    [i \in 1..Len(RealArticles(d)) |-> ExpArticle(RealArticles(d)[i])[1]]
C6_NoEntrySkipped ==
    IsListing =>
        \A k \in 1..Len(served) :
            served[k].body # "archive" =>
                LET dirs == SelectSeq(ViewsOf(k), IsDirectory)
                IN  /\ IsPrefix(dirs, DirectoriesOf(served[k]))
                    /\ (k < Len(served) \/ Complete) =>
                           dirs = DirectoriesOf(served[k])

C6_Witness ==
    /\ IsListing
    /\ pc = "done"
    /\ served = <<PageDesc("plain", <<A_noent, A_two, A_noent, A_zero>>, <<>>)>>
    /\ Len(SelectSeq(ViewOut, IsDirectory)) = 2

\* C7: an Entry run makes one request, of https://<domain>/entry/<path>,
\* without parameters, and a completed run has yielded one Directory
\* message, that of the first article without "no-entry".
C7_EntryRun ==
    ~IsListing =>
        LET dirs == SelectSeq(ViewOut, IsDirectory)
        IN  /\ Len(requests) <= 1
            /\ pc # "start" =>
                  /\ Len(requests) = 1
                  /\ requests[1].url = <<"https://", domain, "/entry/">> \o path
                  /\ requests[1].params = NoParams
            /\ Len(dirs) <= 1
            /\ pc = "done" =>
                  /\ Len(dirs) = 1
                  /\ out[1].kind = "Directory"
                  /\ RealArticles(served[1]) # <<>> =>
                        dirs[1] = ExpArticle(Head(RealArticles(served[1])))[1]

C7_Witness ==
    /\ ~IsListing
    /\ pc = "done"
    /\ served = <<PageDesc("plain", <<A_noent, A_one>>, <<>>)>>
    /\ Len(out) = 2
    /\ out[1].data.title = <<"T2">>

\* C8 (as claimed): every Directory message has a non-empty entry.
C8_DirectoryEntryNonEmpty ==
    \A i \in 1..Len(out) :
        out[i].kind = "Directory" => out[i].data.entry # <<>>

\* C9: a partial-layout page with n archive-entry sections gives n Queue
\* messages, in order, each the section's entry link tagged for the Entry
\* extractor, and nothing else; 5 sections and no pager-next: 5 messages,
\* then Done.
C9_PartialPageQueues ==
    IsListing =>
        /\ \A k \in 1..Len(served) :
              served[k].body = "archive" =>
                  /\ IsPrefix(ViewsOf(k), ExpSections(served[k]))
                  /\ (k < Len(served) \/ Complete) =>
                         ViewsOf(k) = ExpSections(served[k])
        /\ \A i \in 1..Len(out) :
              out[i].kind = "Queue" =>
                  out[i].data["_extractor"] = "HatenaBlogEntryExtractor"
        /\ (served = <<PageDesc("archive", Sections(5), <<>>)>> /\ Complete)
              => pc = "done" /\ Len(out) = 5

C9_Witness ==
    /\ match.route = "search"
    /\ pc = "done"
    /\ served = <<PageDesc("archive", Sections(5), <<>>)>>
    /\ Len(out) = 5
    /\ \A i \in 1..5 : out[i].kind = "Queue"

\* C10: a failed fetch or a raising article ends the run: the request is
\* not repeated, nothing more is requested or yielded, and what was yielded
\* is the prefix, in order, of what the pages give without the error.
C10_State ==
    /\ IsPrefix(ViewOut, ExpStream)
    /\ Len(requests) = Len(served) + (IF error = "fetch" THEN 1 ELSE 0)
    /\ error # "none" <=> pc = "error"
    /\ pc = "error" => ViewOut = ExpStream
    /\ error = "parse" => PageRaises(match.route, served[Len(served)])
    /\ \A k \in 1..Len(served) :
          PageRaises(match.route, served[k]) =>
              k = Len(served) /\ pc \notin {"request", "done"}
C10_StopsAtFirstError ==
    /\ []C10_State
    /\ [][pc = "error" => (out' = out /\ requests' = requests /\ pc' = pc)]_vars

C10_Witness ==
    /\ pc = "error"
    /\ error = "parse"
    /\ Len(requests) = 2
    /\ served[2].frags = <<A_one, A_nosrc, A_two>>
    /\ Len(ItemsOf(2)) = 2
    /\ Len(out) > 2

\* C11: every message of page k is yielded before page k+1 is requested, so
\* the output is ordered by page and, within a page, by document position;
\* a request is issued only once every earlier request has been answered and
\* its page scanned to the end (no prefetch, one request at a time).
C11_State ==
    /\ Len(requests) <= Len(served) + 1
    /\ \A k \in 1..Len(requests) :
          /\ requests[k].before <= Len(out)
          /\ k < Len(requests) =>
                /\ requests[k].before <= requests[k + 1].before
                /\ ViewsOf(k) = ExpPage(match.route, served[k])
    /\ Len(served) > 0 /\ Len(served) = Len(requests) =>
          IsPrefix(ViewsOf(Len(served)),
                   ExpPage(match.route, served[Len(served)]))
C11_PageByPage ==
    /\ []C11_State
    /\ [][Len(requests') # Len(requests) =>
              /\ Len(requests') = Len(requests) + 1
              /\ Len(served) = Len(requests)
              /\ pc \in {"start", "request"}
              /\ out' = out]_vars

C11_Witness ==
    /\ Len(requests) = 3
    /\ served[1].frags = <<A_two, A_one>>
    /\ served[2].frags = Sections(2)
    /\ requests[2].before = 5
    /\ requests[3].before = 7
    /\ out[5].kind = "Url" /\ out[6].kind = "Queue"

\* C12: a listing page without any fragment of its layout yields nothing and
\* raises nothing; once a page is scanned, the run goes on to another
\* request exactly when the page's body has a pager-next link, whatever the
\* number of messages the page gave.
C12_EmptyPageAndPager ==
    IsListing =>
        \A k \in 1..Len(served) :
            /\ ExpPage(match.route, served[k]) = <<>> =>
                  /\ ItemsOf(k) = <<>>
                  /\ ~(k = Len(served) /\ error = "parse")
            /\ (k < Len(served) \/ Complete) =>
                  ((k < Len(requests) \/ pc = "request")
                      <=> served[k].pager # <<>>)

C12_Witness ==
    /\ IsListing
    /\ Len(requests) = 3
    /\ served[1] = PageDesc("plain", <<>>, L3)
    /\ served[2] = PageDesc("archive", Sections(2), L3)
    /\ requests[2].before = 0
    /\ requests[3].before = 2
    /\ Len(served) = 3 /\ served[3] = PageDesc("archive", Sections(0), <<>>)
    /\ pc = "done" /\ error = "none"

\* C13: a listing page is scanned in the partial layout exactly when the
\* attributes of its opening body tag contain "page-archive" (only the
\* "archive" body is rendered with that class; the word elsewhere in the
\* page or a missing body tag give the full layout), and no page yields
\* both Queue and Directory or Url messages.
C13_LayoutByBodyAttributes ==
    IsListing =>
        /\ \A k \in 1..Len(served) :
              \A i \in 1..Len(ItemsOf(k)) :
                  ItemsOf(k)[i].kind = "Queue" <=> served[k].body = "archive"
        /\ pc = "partial" => served[Len(served)].body = "archive"
        /\ pc \in {"full", "images"} => served[Len(served)].body # "archive"

C13_Witness ==
    /\ IsListing
    /\ pc = "done"
    /\ Len(served) = 3
    /\ served[1] = PageDesc("archive", Sections(2), L3)
    /\ served[2] = PageDesc("plain", <<>>, L3)
    /\ served[3] = PageDesc("plain", <<A_pa>>, <<>>)
    /\ Len(out) = 3
    /\ out[2].kind = "Queue" /\ out[3].kind = "Directory"

\* C15: the URL of the Queue message of an archive section whose title link
\* is https://<host>/entry/<path> is accepted by the Entry route pattern and
\* gives domain = <host> and path = <path> (unescaped), so that the Entry
\* run requests the unescaped link itself; the host may be any host.
C15_RoundTrip(link, u) ==
    (Len(link) > 3 /\ link[1] = "https://" /\ link[3] = "/entry/") =>
        /\ EntryMatch(u).ok
        /\ SelfDomain(EntryMatch(u)) = link[2]
        /\ SelfPath(EntryMatch(u)) = Unescape(SubSeq(link, 4, Len(link)))
        /\ EntryUrl(SelfDomain(EntryMatch(u)), SelfPath(EntryMatch(u)))
              = Unescape(link)
C15_QueueUrlReenters ==
    IsListing =>
        \A k \in 1..Len(served) :
            served[k].body = "archive" =>
                \A i \in 1..Len(ItemsOf(k)) :
                    C15_RoundTrip(SelectSeq(served[k].frags, IsSection)[i].link,
                                  ItemsOf(k)[i].url)

C15_Witness ==
    /\ IsListing
    /\ served = <<PageDesc("archive", Sections(3), <<>>)>>
    /\ Len(out) = 3
    /\ out[3].url = <<"hatenablog:">> \o E3
    /\ EntryMatch(out[3].url).g1 = CustomHost
    /\ EntryMatch(out[2].url).g3 = <<"a", "/entry/", "b", "&", "c">>

\* C16: the entry of a Directory message is what follows the first "/entry/"
\* of the article's (unescaped) title link; a later "/entry/" stays in it.
C16_AfterFirst(link) ==
    LET hits == {i \in 1..Len(link) : link[i] = "/entry/"}
    IN  IF hits = {} THEN <<>>
        ELSE Unescape(SubSeq(link, Least(hits) + 1, Len(link)))
C16_EntryAfterFirstMarker ==
    \A k \in 1..Len(served) :
        (match.route = "entry" \/ served[k].body # "archive") =>
            \A j \in 1..Len(SelectSeq(ViewsOf(k), IsDirectory)) :
                j <= Len(RealArticles(served[k])) =>
                    SelectSeq(ViewsOf(k), IsDirectory)[j].entry
                        = C16_AfterFirst(RealArticles(served[k])[j].link)

C16_Witness ==
    \E i \in 1..Len(out) :
        /\ out[i].kind = "Directory"
        /\ out[i].data.title = <<"T2">>
        /\ out[i].data.entry = <<"a", "/entry/", "b", "&", "c">>
        /\ i > 1 /\ out[1].data.entry = <<"2024/01/02/1234">>

\* C17: over any sequence of calls on one marker cursor the position never
\* decreases; a call one of whose markers is not found (the begin marker
\* from the position on, or the end marker after it) returns the empty text
\* and leaves the position unchanged; a successful call leaves the position
\* just past the end marker it matched, the value lying before that marker.
C17_Found(txt, p, begin, end) ==
    \E i \in p..Len(txt) :
        /\ MatchAt(txt, begin, i)
        /\ \E j \in (i + Len(begin))..Len(txt) : MatchAt(txt, end, j)
C17_Law(txt, p, begin, end, r) ==
    IF C17_Found(txt, p, begin, end)
    THEN /\ r.pos >= p + Len(begin) + Len(end)
         /\ MatchAt(txt, end, r.pos - Len(end))
         /\ r.val = Slice(txt, r.pos - Len(end) - Len(r.val),
                          r.pos - Len(end))
         /\ ~Contains(r.val, end)
    ELSE r.val = <<>> /\ r.pos = p
C17_State ==
    pc = "cursor" =>
        \A begin \in BeginMarkers, end \in EndMarkers :
            C17_Law(page, pos, begin, end, ExtractFrom(page, pos, begin, end))
C17_CursorMonotone ==
    /\ []C17_State
    /\ [][pos' >= pos]_vars

C17_Witness ==
    /\ pc = "cursor"
    /\ page = Render(PageDesc("plain", <<A_two, A_one>>, L2))
    /\ MatchAt(page, M_earticle, pos - 1)
    /\ ExtractFrom(page, pos, M_article, <<GT>>).val = <<>>
    /\ ExtractFrom(page, pos, M_article, <<GT>>).pos = pos
    /\ ExtractFrom(page, pos, M_ahref, <<Q>>).pos > pos

\* C18: the scan loops of the full layout, the partial layout and the Entry
\* route end on every page: the cursor stays within the page, and every
\* iteration after which the scan of the page goes on (the loop is entered
\* again, or the Url messages of the article just parsed are yielded first)
\* has moved the cursor strictly forward.
C18_Scanning == pc \in {"partial", "full", "entry"}
C18_ScanAdvances ==
    /\ [](pos \in 0..Len(page))
    /\ [][(C18_Scanning /\ pc' \in {pc, "images"}) =>
              (page' = page /\ pos' > pos)]_vars

C18_Witness ==
    /\ pc = "done"
    /\ match.route = "entry"
    /\ served = <<PageDesc("plain", <<A_noent, A_two, A_noent, A_zero>>, <<>>)>>
    /\ Len(out) = 3
    /\ 0 < pos /\ pos < Len(page)
    /\ MatchAt(page, M_earticle, pos - 1)

\* C19: an article whose parsing raises (an image of the content class
\* without a src attribute) gives no message at all: every Directory message
\* belongs to an article all of whose image URLs could be extracted, and
\* when the run ends on such an article the messages of its page are those
\* of the articles before it.
C19_NoItemOfRaisingArticle ==
    /\ \A k \in 1..Len(served) :
          (match.route = "entry" \/ served[k].body # "archive") =>
              \A j \in 1..Len(SelectSeq(ViewsOf(k), IsDirectory)) :
                  j <= Len(RealArticles(served[k])) =>
                      ~ArticleRaises(RealArticles(served[k])[j])
    /\ \A i \in 1..Len(out) :
          out[i].kind = "Directory" => out[i].data.title # A_nosrc.title
    /\ error = "parse" =>
          /\ ViewsOf(Len(served)) = ExpPage(match.route, served[Len(served)])
          /\ out # <<>> =>
                \/ out[Len(out)].kind = "Url"
                   /\ out[Len(out)].data.num = out[Len(out)].data.count
                \/ out[Len(out)].kind = "Directory"
                   /\ out[Len(out)].data.count = 0
                \/ out[Len(out)].kind = "Queue"

C19_Witness ==
    /\ error = "parse"
    /\ served = <<PageDesc("plain", <<A_one, A_nosrc, A_two>>, <<>>)>>
    /\ Len(out) = 2
    /\ out[1].kind = "Directory" /\ out[1].data.title = <<"T2">>
    /\ out[2].kind = "Url" /\ out[2].data.num = 1

\* C20: the metadata delivered with a Directory message holds exactly
\* domain, date, entry, title and count, that delivered with a Url message
\* holds num, filename and extension besides, and a metadata object once
\* delivered is as it was when it was delivered (data is the content at the
\* yield, objs[obj] the content of the same object now).
C20_ArticleKeys == {"domain", "date", "entry", "title", "count"}
C20_DeliveredMetadataKept ==
    \A i \in 1..Len(out) :
        /\ out[i].kind = "Directory" =>
              /\ DOMAIN out[i].data = C20_ArticleKeys
              /\ objs[out[i].obj] = out[i].data
        /\ out[i].kind = "Url" =>
              /\ DOMAIN out[i].data
                    = C20_ArticleKeys \cup {"num", "filename", "extension"}
              /\ objs[out[i].obj] = out[i].data

\* C14: a run leaves the fields of its target as constructed, so that its
\* first request is that of the target; and when the steps of two runs
\* interleave in any order, a step of one changes nothing of the other, and
\* the requests and messages of each are those its own target and the pages
\* served to it give when it runs alone.
C14_FirstRequest ==
    [url |-> IF IsListing THEN StartUrl
             ELSE EntryUrl(SelfDomain(match), SelfPath(match)),
     params |-> IF IsListing THEN Params(SelfQuery(match)) ELSE NoParams,
     before |-> 0]
C14_State ==
    /\ domain = SelfDomain(match)
    /\ path = SelfPath(match)
    /\ query = SelfQuery(match)
    /\ requests # <<>> => requests[1] = C14_FirstRequest
    /\ \A k \in 2..Len(requests) :
          /\ requests[k].url = Unescape(served[k - 1].pager)
          /\ requests[k].params = NoParams
          /\ SubSeq(ViewOut, 1, requests[k].before)
                = Concat([j \in 1..(k - 1) |-> ExpPage(match.route, served[j])])
    /\ IsPrefix(ViewOut, ExpStream)
    /\ pc \in {"request", "done", "error"} => ViewOut = ExpStream
C14_Swapped == parked' = Own /\ Own' = parked
C14_Independent ==
    /\ []C14_State
    /\ [][C14_Swapped \/ (parked' = parked /\ UNCHANGED Target_vars)]_vars

C14_Witness ==
    /\ pc = "images"
    /\ parked.pc = "images"
    /\ match.route = "entry"
    /\ parked.match.route = "home"
    /\ Len(parked.requests) = 2
    /\ Len(parked.out) = 6
    /\ parked.page # page
    /\ Len(out) = 1

====
